---------------------------- MODULE Spec2Model ----------------------------
(***************************************************************************)
(* Format-preserving rendering of a TOML document tree                     *)
(* (src/toml_edit/display.rs): Display for Repr, Formatted, Value, Array,  *)
(* InlineTable, Table and Document, the table-tree traversal               *)
(* Table::visit_nested_tables, visit_table, and                            *)
(* Document::to_string_in_original_order.                                  *)
(*                                                                         *)
(* Text is a sequence of one-character strings.  An output sink is a       *)
(* record [out, n, failAt, r]: the text accepted so far, the number of     *)
(* write_str attempts made, the attempt the sink rejects (0: none) and the *)
(* fmt::Result of the last attempt.                                        *)
(***************************************************************************)
EXTENDS Integers, Sequences, FiniteSets, TLC

VARIABLES
    value,              \* the Value handed to Display for Value
    table,              \* visit_table's table argument
    path,               \* visit_table's path argument / the traversal's path stack
    is_array_of_tables, \* visit_table's flag argument
    source,             \* the source text a document was parsed from (list of blocks)
    doc,                \* the Document
    f,                  \* the output sink of the last Display call
    string,             \* the String returned by to_string_in_original_order
    calls,              \* callback invocations of the last traversal
    tables,             \* the (last_position, buffer) pairs of the last original-order render
    result,             \* the fmt::Result the last render returned
    pc                  \* the last operation that completed

vars ==
    <<value, table, path, is_array_of_tables, source, doc, f, string, calls, tables,
      result, pc>>

-----------------------------------------------------------------------------
(* Text *)

RECURSIVE Concat(_)
\* The concatenation of a sequence of texts.
Concat(ss) == IF ss = <<>> THEN <<>> ELSE Head(ss) \o Concat(Tail(ss))

RECURSIVE join(_, _)
\* [&str]::join(sep)
join(ss, sep) ==
    IF ss = <<>> THEN <<>>
    ELSE IF Len(ss) = 1 THEN ss[1]
    ELSE ss[1] \o sep \o join(Tail(ss), sep)

\* usize::saturating_sub
saturating_sub(a, b) == IF a >= b THEN a - b ELSE 0

\* String::insert(idx, ch), idx counted from 0
insert(s, idx, ch) == SubSeq(s, 1, idx) \o <<ch>> \o SubSeq(s, idx + 1, Len(s))

\* The number of occurrences of character ch in text s.
Count(s, ch) == Cardinality({i \in 1..Len(s) : s[i] = ch})

\* Text s is a prefix of text t.
IsPrefix(s, t) == Len(s) <= Len(t) /\ SubSeq(t, 1, Len(s)) = s

-----------------------------------------------------------------------------
(* Accessors defined beside the tree types *)

ScalarKinds == {"Integer", "String", "Float", "Boolean", "DateTime"}

\* Item::is_value
is_value(item) == item.kind = "Value"

\* Item::as_value().unwrap()
as_value(item) == item.value

IsValueEntry(kv) == is_value(kv.value)

\* Table::values_len: the number of direct Value entries
values_len(t) == Len(SelectSeq(t.items, IsValueEntry))

\* Value::decor_mut (read side)
Value_decor(v) == IF v.kind \in ScalarKinds THEN v.repr.decor ELSE v.decor

\* Value::decor_mut (write side)
Value_set_decor(v, d) ==
    IF v.kind \in ScalarKinds THEN [v EXCEPT !.repr.decor = d] ELSE [v EXCEPT !.decor = d]

\* Document::as_table
as_table(d) == d.root

-----------------------------------------------------------------------------
(* The output sink and the fmt machinery                                   *)
(* A Display impl is modelled by the sequence of format pieces its write!  *)
(* statements hand to the sink, in order: a string (Str), a Repr or a      *)
(* Value.  Every write! of the source is followed by `?` or is the value   *)
(* returned, so the pieces are written in order up to the first error.     *)

\* A fresh sink that rejects its k-th write_str (k = 0: a sink that never fails,
\* such as a String).
NewSink(k) == [out |-> <<>>, n |-> 0, failAt |-> k, r |-> "Ok"]

String_new == NewSink(0)

\* One write_str on the sink.
write_str(w, s) ==
    IF w.n + 1 = w.failAt
    THEN [w EXCEPT !.n = @ + 1, !.r = "Err"]
    ELSE [w EXCEPT !.n = @ + 1, !.out = @ \o s, !.r = "Ok"]

Failed(w) == w.r = "Err"

Str(s) == [kind |-> "str", s |-> s]
ReprPiece(r) == [kind |-> "Repr", v |-> r]
ValuePiece(v) == [kind |-> "Value", v |-> v]

\* v2.decor_mut().suffix.insert(0, ',')
suffix_insert_comma(v2) ==
    LET d == Value_decor(v2)
    IN Value_set_decor(v2, [d EXCEPT !.suffix = insert(@, 0, ",")])

\* The mutant of Array_element that edits the element in place.
Array_element_in_place(self, i) ==
    LET len == saturating_sub(Len(self.values), 1)
        v == self.values[i + 1]
    IN IF i = len /\ self.trailing_comma /\ self.newlines
       THEN [v |-> suffix_insert_comma(v), val |-> suffix_insert_comma(v)]
       ELSE [v |-> v, val |-> v]

\* The mutant of Array_element that appends the comma after the element's suffix.
Array_element_comma_after(self, i) ==
    LET len == saturating_sub(Len(self.values), 1)
        v == self.values[i + 1]
        d == Value_decor(v)
    IN IF i = len /\ self.trailing_comma /\ self.newlines
       THEN [v |-> v, val |-> Value_set_decor(v, [d EXCEPT !.suffix = @ \o <<",">>])]
       ELSE [v |-> v, val |-> v]

\* One iteration of the loop of Display for Array at index i (from 0): v is
\* the element as the array holds it afterwards, val the value written.
Array_element(self, i) ==
    LET len == saturating_sub(Len(self.values), 1)
        v == self.values[i + 1]
        v2 == v
    IN IF i = len /\ self.trailing_comma /\ self.newlines
       THEN [v |-> v, val |-> suffix_insert_comma(v2)]
       ELSE [v |-> v, val |-> v]

\* The mutant of Array_final_comma that ignores the newlines flag.
Array_final_comma_always(self) == self.trailing_comma

\* Whether Display for Array writes a comma after the loop.
Array_final_comma(self) == self.trailing_comma /\ ~self.newlines

\* The mutant of InlineTable_entries that numbers the entries before filtering.
InlineTable_entries_enumerate_first(self) ==
    LET all == [i \in 1..Len(self.items) |->
                   [i |-> i - 1, key |-> self.items[i].key, item |-> self.items[i].value]]
        IsVal(e) == is_value(e.item)
        kept == SelectSeq(all, IsVal)
    IN [k \in 1..Len(kept) |->
           [i |-> kept[k].i, key |-> kept[k].key, value |-> as_value(kept[k].item)]]

\* The iterator of Display for InlineTable: filter to Value entries, map to
\* (key, value), enumerate.
InlineTable_entries(self) ==
    LET kept == SelectSeq(self.items, IsValueEntry)
    IN [k \in 1..Len(kept) |->
           [i |-> k - 1, key |-> kept[k].key, value |-> as_value(kept[k].value)]]

\* impl Display for Repr
Repr_pieces(self) == <<Str(self.decor.prefix), Str(self.raw_value), Str(self.decor.suffix)>>

\* impl Display for Formatted<T>
Formatted_pieces(self) == <<ReprPiece(self.repr)>>

\* impl Display for Array
Array_pieces(self) ==
    <<Str(self.decor.prefix), Str(<<"[">>)>>
      \o Concat([k \in 1..Len(self.values) |->
                    (IF k - 1 > 0 THEN <<Str(<<",">>)>> ELSE <<>>)
                      \o <<ValuePiece(Array_element(self, k - 1).val)>>])
      \o (IF Array_final_comma(self) THEN <<Str(<<",">>)>> ELSE <<>>)
      \o <<Str(self.trailing), Str(<<"]">>), Str(self.decor.suffix)>>

\* impl Display for InlineTable
InlineTable_pieces(self) ==
    LET entries == InlineTable_entries(self)
    IN <<Str(self.decor.prefix), Str(<<"{">>), Str(self.preamble)>>
         \o Concat([k \in 1..Len(entries) |->
                       (IF entries[k].i > 0 THEN <<Str(<<",">>)>> ELSE <<>>)
                         \o <<ReprPiece(entries[k].key), Str(<<"=">>),
                              ValuePiece(entries[k].value)>>])
         \o <<Str(<<"}">>), Str(self.decor.suffix)>>

\* impl Display for Value
Value_pieces(self) ==
    CASE self.kind \in ScalarKinds -> Formatted_pieces(self)
      [] self.kind = "Array" -> Array_pieces(self)
      [] self.kind = "InlineTable" -> InlineTable_pieces(self)

RECURSIVE write_pieces(_, _)
\* fmt::write: the pieces go to the sink in order; a Repr or Value piece is
\* rendered by its own Display impl; the first error ends the whole write.
write_pieces(w, ps) ==
    IF Failed(w) \/ ps = <<>> THEN w
    ELSE LET p == Head(ps)
         IN write_pieces(
                CASE p.kind = "str" -> write_str(w, p.s)
                  [] p.kind = "Repr" -> write_pieces(w, Repr_pieces(p.v))
                  [] p.kind = "Value" -> write_pieces(w, Value_pieces(p.v)),
                Tail(ps))

Repr_fmt(w, self) == write_pieces(w, Repr_pieces(self))

Value_fmt(w, self) == write_pieces(w, Value_pieces(self))

-----------------------------------------------------------------------------
(* visit_table: one table's header and body *)

\* The mutant of visit_table_header_kind that drops the implicit-table test.
visit_table_header_kind_no_implicit(t, p, is_aot) ==
    IF p = <<>> THEN "none"
    ELSE IF is_aot THEN "array"
    ELSE "std"

\* Which branch of visit_table's header chain is taken.
visit_table_header_kind(t, p, is_aot) ==
    IF p = <<>> THEN "none"
    ELSE IF is_aot THEN "array"
    ELSE IF ~(t.implicit /\ values_len(t) = 0) THEN "std"
    ELSE "none"

visit_table_header(t, p, is_aot) ==
    LET kind == visit_table_header_kind(t, p, is_aot)
    IN CASE kind = "array" ->
              <<Str(t.decor.prefix), Str(<<"[", "[">>), Str(join(p, <<".">>)),
                Str(<<"]", "]">>), Str(t.decor.suffix), Str(<<"\n">>)>>
         [] kind = "std" ->
              <<Str(t.decor.prefix), Str(<<"[">>), Str(join(p, <<".">>)),
                Str(<<"]">>), Str(t.decor.suffix), Str(<<"\n">>)>>
         [] OTHER -> <<>>

\* if let Item::Value(ref value) = kv.value
visit_table_prints(kv) == kv.value.kind = "Value"

\* for kv in table.items.values() { writeln!(f, "{}={}", kv.key, value)? }
visit_table_body(t) ==
    Concat([i \in 1..Len(t.items) |->
               IF visit_table_prints(t.items[i])
               THEN <<ReprPiece(t.items[i].key), Str(<<"=">>),
                      ValuePiece(t.items[i].value.value), Str(<<"\n">>)>>
               ELSE <<>>])

visit_table(w, t, p, is_aot) ==
    write_pieces(w, visit_table_header(t, p, is_aot) \o visit_table_body(t))

-----------------------------------------------------------------------------
(* Table::visit_nested_tables                                              *)
(* The traversal state st: the sink f, the path stack, the Result r of the *)
(* last call, the callback invocations made so far (calls), and the        *)
(* captures of the original-order closure (last_position, tables).         *)

NewTraversal(w) ==
    [f |-> w, path |-> <<>>, r |-> "Ok", calls |-> <<>>, last_position |-> 0,
     tables |-> <<>>]

\* The traversal state after a call that left the sink as w.
with_sink(st, w) == [st EXCEPT !.f = w, !.r = w.r]

\* The closure of Display for Table: visit_table(f, t, path, is_array)
Display_callback(st, t, is_array) ==
    with_sink(st, visit_table(st.f, t, st.path, is_array))

\* if let Some(pos) = t.position { last_position = pos; }
running_position(last_position, t) ==
    IF t.position # <<>> THEN t.position[1] ELSE last_position

\* The closure of to_string_in_original_order, after last_position is set:
\* render into a String of its own and push (last_position, s).
push_buffer(st, s) ==
    IF Failed(s) THEN [st EXCEPT !.r = "Err"]
    ELSE [st EXCEPT !.tables = Append(@, <<st.last_position, s.out>>), !.r = "Ok"]

\* The closure of to_string_in_original_order
original_callback(st, t, is_array) ==
    push_buffer([st EXCEPT !.last_position = running_position(@, t)],
                visit_table(String_new, t, st.path, is_array))

\* The invocation recorded in calls.
Invocation(st, t, is_array) ==
    [st EXCEPT !.calls = Append(@, [table |-> t, path |-> st.path,
                                    is_array_of_tables |-> is_array])]

\* callback(self, path, is_array_of_tables)
callback(cb, st, t, is_array) ==
    IF cb = "Display" THEN Display_callback(Invocation(st, t, is_array), t, is_array)
    ELSE original_callback(Invocation(st, t, is_array), t, is_array)

\* path.push(&kv.key.raw_value), before the visit of the j-th table under kv
path_push(st, kv, j) == [st EXCEPT !.path = Append(@, kv.key.raw_value)]

\* The mutant of path_pop that leaves the segment on the stack.
path_pop_missing(st) == st

\* t.visit_nested_tables(...)?; path.pop();
path_pop(st) ==
    IF st.r = "Err" THEN st
    ELSE [st EXCEPT !.path = SubSeq(@, 1, Len(@) - 1)]

RECURSIVE visit_nested_tables(_, _, _, _), visit_items(_, _, _, _),
          visit_array_of_tables(_, _, _, _, _)

\* The mutant of after_callback that drops the callback's Result and goes on.
after_callback_ignore(self, st, cb) ==
    visit_items(self, [st EXCEPT !.r = "Ok"], 1, cb)

\* callback(...)?; then the loop over the items
after_callback(self, st, cb) ==
    IF st.r = "Err" THEN st ELSE visit_items(self, st, 1, cb)

visit_nested_tables(self, st, is_aot, cb) ==
    after_callback(self, callback(cb, st, self, is_aot), cb)

\* match kv.value { Item::Table => ..., Item::ArrayOfTables => ..., _ => {} }
visit_item(kv, st, cb) ==
    CASE kv.value.kind = "Table" ->
           path_pop(visit_nested_tables(kv.value.table, path_push(st, kv, 1), FALSE, cb))
      [] kv.value.kind = "ArrayOfTables" ->
           visit_array_of_tables(kv.value.values, kv, st, 1, cb)
      [] OTHER -> st

\* for kv in self.items.values(), from the i-th (from 1) on
visit_items(self, st, i, cb) ==
    IF st.r = "Err" \/ i > Len(self.items) THEN st
    ELSE visit_items(self, visit_item(self.items[i], st, cb), i + 1, cb)

\* for t in a.iter(), from the j-th (from 1) on
visit_array_of_tables(a, kv, st, j, cb) ==
    IF st.r = "Err" \/ j > Len(a) THEN st
    ELSE visit_array_of_tables(
             a, kv,
             path_pop(visit_nested_tables(a[j], path_push(st, kv, j), TRUE, cb)),
             j + 1, cb)

-----------------------------------------------------------------------------
(* Display for Table and Document; Document::to_string_in_original_order *)

Table_fmt(w, self) ==
    visit_nested_tables(self, NewTraversal(w), FALSE, "Display")

\* write!(f, "{}", self.as_table())?; write!(f, "{}", self.trailing)
Document_fmt_trailing(st, self) ==
    IF st.r = "Err" THEN st ELSE with_sink(st, write_str(st.f, self.trailing))

Document_fmt(w, self) == Document_fmt_trailing(Table_fmt(w, as_table(self)), self)

RECURSIVE insert_sorted(_, _)
\* The place of pair e in the sorted sequence s: after every pair whose key is
\* not greater.
insert_sorted(s, e) ==
    IF s = <<>> THEN <<e>>
    ELSE IF s[Len(s)][1] <= e[1] THEN Append(s, e)
    ELSE Append(insert_sorted(SubSeq(s, 1, Len(s) - 1), e), s[Len(s)])

RECURSIVE sort_by_key_rev(_)
\* The mutant of sort_by_key that is not stable: equal keys come out reversed.
sort_by_key_rev(s) ==
    IF s = <<>> THEN <<>>
    ELSE insert_sorted(sort_by_key_rev(Tail(s)), Head(s))

\* The mutant of sort_by_key that leaves the pairs in traversal order.
sort_by_key_none(s) == s

RECURSIVE sort_by_key(_)
\* tables.sort_by_key(|&(id, _)| id): a stable sort
sort_by_key(s) ==
    IF s = <<>> THEN <<>>
    ELSE insert_sorted(sort_by_key(SubSeq(s, 1, Len(s) - 1)), s[Len(s)])

\* The buffers of the pairs, in sequence.
Buffers(s) == [i \in 1..Len(s) |-> s[i][2]]

\* The traversal of to_string_in_original_order, up to the sort.
original_order_traversal(self) ==
    visit_nested_tables(as_table(self), NewTraversal(String_new), FALSE, "original")

\* for (_, table) in tables { string.push_str(&table) }; string.push_str(&self.trailing)
push_strs(sorted, self) == Concat(Buffers(sorted)) \o self.trailing

to_string_in_original_order(self) ==
    push_strs(sort_by_key(original_order_traversal(self).tables), self)

-----------------------------------------------------------------------------
(* What a render leaves of the tree.  Display takes &self: the only write  *)
(* of a render goes to the clone v2 of an array element.                   *)

RECURSIVE Value_after_fmt(_), Items_after_fmt(_), Table_after_fmt(_)

Value_after_fmt(v) ==
    CASE v.kind \in ScalarKinds -> v
      [] v.kind = "Array" ->
           [v EXCEPT !.values =
               [i \in 1..Len(v.values) |-> Value_after_fmt(Array_element(v, i - 1).v)]]
      [] v.kind = "InlineTable" -> [v EXCEPT !.items = Items_after_fmt(@)]

Items_after_fmt(items) ==
    [i \in 1..Len(items) |->
        LET item == items[i].value
        IN CASE item.kind = "Value" ->
                  [items[i] EXCEPT !.value.value = Value_after_fmt(@)]
             [] item.kind = "Table" ->
                  [items[i] EXCEPT !.value.table = Table_after_fmt(@)]
             [] item.kind = "ArrayOfTables" ->
                  [items[i] EXCEPT !.value.values =
                      [j \in 1..Len(item.values) |-> Table_after_fmt(item.values[j])]]
             [] OTHER -> items[i]]

Table_after_fmt(t) == [t EXCEPT !.items = Items_after_fmt(@)]

Document_after_fmt(d) == [d EXCEPT !.root = Table_after_fmt(@)]

-----------------------------------------------------------------------------
(* Bounded inputs *)

\* The most elements of an Array.
MaxLen == 3
\* The most entries of an InlineTable or of the table handed to visit_table.
MaxItems == 3

Nil == "nil"
NL == <<"\n">>
NoDecor == [prefix |-> <<>>, suffix |-> <<>>]
Decor(p, s) == [prefix |-> p, suffix |-> s]

Repr(d, raw) == [decor |-> d, raw_value |-> raw]
Integer(d, raw) == [kind |-> "Integer", repr |-> Repr(d, raw)]
Array(d, vs, tr, tc, nl) ==
    [kind |-> "Array", values |-> vs, decor |-> d, trailing |-> tr,
     trailing_comma |-> tc, newlines |-> nl]
InlineTable(d, pre, items) ==
    [kind |-> "InlineTable", items |-> items, decor |-> d, preamble |-> pre]
KV(key, item) == [key |-> key, value |-> item]
ItemNone == [kind |-> "None"]
ItemValue(v) == [kind |-> "Value", value |-> v]
ItemTable(t) == [kind |-> "Table", table |-> t]
ItemArrayOfTables(ts) == [kind |-> "ArrayOfTables", values |-> ts]
Table(d, items, implicit, position) ==
    [items |-> items, decor |-> d, implicit |-> implicit, position |-> position]
Document(root, trailing) == [root |-> root, trailing |-> trailing]

Digits == <<"1", "2", "3", "4", "5">>
KeyNames == <<"a", "b", "c", "d", "e">>

\* The decor of a scalar array element: none; a line break after it; spaces
\* before the line break; a comment before the line break.
ElemDecors ==
    { NoDecor,
      Decor(<<>>, NL),
      Decor(<<"\n", " ">>, <<" ", "\n">>),
      Decor(<<" ">>, <<" ", "#", "c", "\n">>) }

\* A structured array element: [7,\n]\n
InnerArray == Array(Decor(<<>>, NL), <<Integer(Decor(<<>>, NL), <<"7">>)>>, <<>>, TRUE, TRUE)

\* The values that may stand at index i (from 1) of an array: the integer i
\* with any decor, or a structured value.
Elements(i) ==
    {Integer(d, <<Digits[i]>>) : d \in ElemDecors} \cup {InnerArray}

ArrayDecors == {NoDecor, Decor(<<" ">>, <<" ">>)}

Arrays ==
    UNION {
      { Array(d, vs, tr, tc, nl) :
          d \in ArrayDecors, tr \in {<<>>, NL}, tc \in BOOLEAN, nl \in BOOLEAN,
          vs \in {s \in [1..n -> UNION {Elements(i) : i \in 1..n}] :
                     \A i \in 1..n : s[i] \in Elements(i)} }
      : n \in 0..MaxLen }

EmptyTable == Table(NoDecor, <<>>, FALSE, <<>>)

\* The items an inline-table entry may hold.
InlineItems ==
    { ItemNone,
      ItemValue(Integer(NoDecor, <<"1">>)),
      ItemValue(Integer(Decor(<<" ">>, <<" ">>), <<"2">>)),
      ItemTable(EmptyTable),
      ItemArrayOfTables(<<EmptyTable>>) }

\* The i-th key; the second is written with a space before the "=".
Key(i) == Repr(IF i = 2 THEN Decor(<<>>, <<" ">>) ELSE NoDecor, <<KeyNames[i]>>)

InlineTables ==
    UNION {
      { InlineTable(d, pre, [i \in 1..n |-> KV(Key(i), its[i])]) :
          d \in ArrayDecors, pre \in {<<>>, <<" ">>}, its \in [1..n -> InlineItems] }
      : n \in 0..MaxItems }

-----------------------------------------------------------------------------
(* Rendering one Value *)

InitValue ==
    /\ value \in Arrays \cup InlineTables
    /\ table = Nil /\ path = Nil /\ is_array_of_tables = Nil
    /\ source = Nil /\ doc = Nil
    /\ f = Nil /\ string = Nil /\ calls = Nil /\ tables = Nil /\ result = Nil
    /\ pc = "init"

\* write!(f, "{}", value) on a sink that never fails
FmtValue ==
    /\ pc = "init"
    /\ f' = Value_fmt(NewSink(0), value)
    /\ result' = f'.r
    /\ value' = Value_after_fmt(value)
    /\ pc' = "Value::fmt"
    /\ UNCHANGED <<table, path, is_array_of_tables, source, doc, string, calls, tables>>

NextValue == FmtValue

SpecValue == InitValue /\ [][NextValue]_vars

-----------------------------------------------------------------------------
(* Properties of Display for Array and InlineTable (under SpecValue) *)

\* The text of a value rendered on its own.
Text(v) == Value_fmt(String_new, v).out

\* The text of a value up to its own suffix.
TextBeforeSuffix(v) ==
    SubSeq(Text(v), 1, Len(Text(v)) - Len(Value_decor(v).suffix))

Texts(ts) == [i \in 1..Len(ts) |-> Text(ts[i])]

\* The sequence ts with its last member replaced by t.
ReplaceLast(ts, t) == SubSeq(ts, 1, Len(ts) - 1) \o <<t>>

Rendered(kind) == pc = "Value::fmt" /\ value.kind = kind

\* The index of the first line break of text s (0: none).
FirstNL(s) ==
    IF \E i \in 1..Len(s) : s[i] = "\n"
    THEN CHOOSE i \in 1..Len(s) : s[i] = "\n" /\ \A j \in 1..(i - 1) : s[j] # "\n"
    ELSE 0

\* The index of the last occurrence of character ch in text s (0: none).
LastIndex(s, ch) ==
    IF \E i \in 1..Len(s) : s[i] = ch
    THEN CHOOSE i \in 1..Len(s) : s[i] = ch /\ \A j \in (i + 1)..Len(s) : s[j] # ch
    ELSE 0

\* The commas of the array's own decor and of its elements' texts.
ArrayOwnCommas(a) ==
    Count(a.decor.prefix \o a.trailing \o a.decor.suffix, ",")
      + Count(Concat(Texts(a.values)), ",")

\* C5: an array of n >= 1 elements renders as prefix, "[", the elements in
\* order with one comma before each but the first, one more comma exactly
\* when trailing_comma && !newlines, the trailing decor, "]", suffix (with
\* trailing_comma && newlines the last element's text carries one comma more);
\* the renderer adds n-1 commas when trailing_comma is false and n when true.
C5_ArrayCommaRule ==
    (Rendered("Array") /\ Len(value.values) >= 1) =>
        LET a == value
            n == Len(a.values)
            ts == Texts(a.values)
            open == a.decor.prefix \o <<"[">>
            close == a.trailing \o <<"]">> \o a.decor.suffix
            added == Count(f.out, ",") - ArrayOwnCommas(a)
        IN /\ f.r = "Ok"
           /\ ~(a.trailing_comma /\ a.newlines) =>
                f.out = open \o join(ts, <<",">>)
                          \o (IF a.trailing_comma THEN <<",">> ELSE <<>>) \o close
           /\ (a.trailing_comma /\ a.newlines) =>
                \E k \in 0..Len(ts[n]) :
                    f.out = open \o join(ReplaceLast(ts, insert(ts[n], k, ",")), <<",">>)
                              \o close
           /\ added = IF a.trailing_comma THEN n ELSE n - 1

Plain(i) == Integer(NoDecor, <<Digits[i]>>)

\* The elements 1,2,3 with trailing_comma and without newlines came out as [1,2,3,]
C5_Witness ==
    /\ Rendered("Array")
    /\ value = Array(NoDecor, <<Plain(1), Plain(2), Plain(3)>>, <<>>, TRUE, FALSE)
    /\ f.out = <<"[", "1", ",", "2", ",", "3", ",", "]">>

\* The array's render with the last element's text replaced by t.
ArrayTextWithLast(a, t) ==
    a.decor.prefix \o <<"[">>
      \o join(ReplaceLast(Texts(a.values), t), <<",">>)
      \o a.trailing \o <<"]">> \o a.decor.suffix

SplicedArray ==
    /\ Rendered("Array")
    /\ value.trailing_comma /\ value.newlines
    /\ Len(value.values) >= 1

\* C6 as stated: with trailing_comma && newlines the comma stands immediately
\* before the line break of the last element's suffix, whatever precedes the
\* line break in that suffix.
C6_CommaImmediatelyBeforeLineBreak ==
    SplicedArray =>
        LET a == value
            last == a.values[Len(a.values)]
            suffix == Value_decor(last).suffix
            k == FirstNL(suffix)
        IN k > 0 =>
             f.out = ArrayTextWithLast(a, TextBeforeSuffix(last) \o insert(suffix, k - 1, ","))

\* C6 amended: with trailing_comma && newlines the comma is the first
\* character of the last element's suffix (directly after the element's own
\* text, before any spaces, comment or line break of that suffix); no other
\* element's text changes and nothing is appended after the last element's
\* suffix; when that suffix holds a line break the comma stands on the
\* element's line, before that line break, and the renderer puts no comma
\* on the closing bracket's line.
C6_CommaAtFrontOfSuffix ==
    SplicedArray =>
        LET a == value
            last == a.values[Len(a.values)]
            suffix == Value_decor(last).suffix
            k == FirstNL(suffix)
            spliced == TextBeforeSuffix(last) \o <<",">> \o suffix
            inner == a.decor.prefix \o <<"[">>
                       \o join(ReplaceLast(Texts(a.values), spliced), <<",">>)
                       \o a.trailing
            c == Len(inner) - Len(a.trailing) - Len(suffix)
            nl == LastIndex(inner, "\n")
        IN /\ f.out = inner \o <<"]">> \o a.decor.suffix
           /\ inner[c] = ","
           /\ k > 0 =>
                /\ \A j \in (c + 1)..(c + k - 1) : inner[j] # "\n"
                /\ inner[c + k] = "\n"
                /\ nl >= c + k
                /\ \A j \in (nl + 1)..Len(inner) : inner[j] # ","

\* An array whose last element has spaces before its line break was rendered
\* with the comma spliced in.
C6_Witness ==
    /\ SplicedArray
    /\ Len(value.values) = 2
    /\ Value_decor(value.values[2]).suffix = <<" ", "\n">>
    /\ value.values[1] = Integer(Decor(<<>>, NL), <<"1">>)
    /\ value.decor = NoDecor /\ value.trailing = <<>>
    /\ f.out = <<"[", "1", "\n", ",", "\n", " ", "2", ",", " ", "\n", "]">>

\* The entries of an inline table that hold a Value.
ValueEntries(t) == SelectSeq(t.items, IsValueEntry)

EntryText(kv) ==
    kv.key.decor.prefix \o kv.key.raw_value \o kv.key.decor.suffix
      \o <<"=">> \o Text(kv.value.value)

\* C7: an inline table renders as prefix, "{", preamble, key=value of exactly
\* the entries holding a Value, in order, one comma between consecutive ones,
\* "}", suffix; entries of the other kinds give no text and no comma, so the
\* text is that of the table without them, and k Value entries give
\* max(k-1, 0) commas.
C7_InlineTableFilter ==
    Rendered("InlineTable") =>
        LET t == value
            kept == ValueEntries(t)
            k == Len(kept)
        IN /\ f.r = "Ok"
           /\ f.out = t.decor.prefix \o <<"{">> \o t.preamble
                        \o join([i \in 1..k |-> EntryText(kept[i])], <<",">>)
                        \o <<"}">> \o t.decor.suffix
           /\ f.out = Text([t EXCEPT !.items = kept])
           /\ Count(f.out, ",") = IF k >= 1 THEN k - 1 ELSE 0

\* An inline table whose first entry is None and whose other entries are
\* Values was rendered.
C7_Witness ==
    /\ Rendered("InlineTable")
    /\ Len(value.items) = 3
    /\ value.items[1].value = ItemNone
    /\ is_value(value.items[2].value) /\ is_value(value.items[3].value)
    /\ Count(f.out, ",") = 1

\* C10: an array without elements renders as prefix, "[", trailing decor, "]",
\* suffix, with no comma, whatever its flags.
C10_EmptyArrayNoComma ==
    (Rendered("Array") /\ Len(value.values) = 0) =>
        f.out = value.decor.prefix \o <<"[">> \o value.trailing \o <<"]">>
                  \o value.decor.suffix

-----------------------------------------------------------------------------
(* visit_table on one table *)

ChildTable ==
    Table(NoDecor, <<KV(Key(1), ItemValue(Integer(NoDecor, <<"9">>)))>>, FALSE, <<>>)

\* The items an entry of the visited table may hold.
TableItems ==
    { ItemNone,
      ItemValue(Integer(NoDecor, <<"1">>)),
      ItemValue(Array(NoDecor, <<Integer(NoDecor, <<"1">>)>>, <<>>, TRUE, FALSE)),
      ItemTable(ChildTable),
      ItemArrayOfTables(<<ChildTable>>) }

TableDecors == {NoDecor, Decor(<<"\n">>, <<" ", "#", "c">>)}

VisitedTables ==
    UNION {
      { Table(d, [i \in 1..n |-> KV(Key(i), its[i])], implicit, <<>>) :
          d \in TableDecors, implicit \in BOOLEAN, its \in [1..n -> TableItems] }
      : n \in 0..MaxItems }

VisitedPaths == { <<>>, << <<"x">> >>, << <<"a">>, <<"b">> >> }

InitTable ==
    /\ table \in VisitedTables
    /\ path \in VisitedPaths
    /\ is_array_of_tables \in BOOLEAN
    /\ value = Nil /\ source = Nil /\ doc = Nil
    /\ f = Nil /\ string = Nil /\ calls = Nil /\ tables = Nil /\ result = Nil
    /\ pc = "init"

\* visit_table(f, table, path, is_array_of_tables) on a sink that never fails
VisitTable ==
    /\ pc = "init"
    /\ f' = visit_table(NewSink(0), table, path, is_array_of_tables)
    /\ result' = f'.r
    /\ table' = Table_after_fmt(table)
    /\ pc' = "visit_table"
    /\ UNCHANGED <<value, path, is_array_of_tables, source, doc, string, calls, tables>>

NextTable == VisitTable

SpecTable == InitTable /\ [][NextTable]_vars

\* The number of direct Value entries of table t.
DirectValues(t) == Cardinality({i \in 1..Len(t.items) : t.items[i].value.kind = "Value"})

HeaderText(t, p, open, close) ==
    t.decor.prefix \o open \o join(p, <<".">>) \o close \o t.decor.suffix \o NL

\* C2: visit_table emits the header its rules choose (none for the empty
\* path; the double-bracket form for an array-of-tables visit at a non-empty
\* path, implicit or not; the single-bracket form otherwise unless the table
\* is implicit with no direct Value entry, which gets none), then one
\* key=value line per entry holding a Value, in order, and nothing else.
C2_VisitTable ==
    pc = "visit_table" =>
        LET t == table
            kept == ValueEntries(t)
            header ==
                IF path = <<>> THEN <<>>
                ELSE IF is_array_of_tables
                     THEN HeaderText(t, path, <<"[", "[">>, <<"]", "]">>)
                ELSE IF ~(t.implicit /\ DirectValues(t) = 0)
                     THEN HeaderText(t, path, <<"[">>, <<"]">>)
                ELSE <<>>
            body == Concat([i \in 1..Len(kept) |-> EntryText(kept[i]) \o NL])
        IN f.r = "Ok" /\ f.out = header \o body

\* An implicit table holding only tables was visited at path a.b and gave no text.
C2_Witness ==
    /\ pc = "visit_table"
    /\ table.implicit /\ Len(table.items) = 2 /\ DirectValues(table) = 0
    /\ table.items[1].value.kind = "Table"
    /\ path = << <<"a">>, <<"b">> >> /\ ~is_array_of_tables
    /\ f.out = <<>>

-----------------------------------------------------------------------------
(* Rendering a Document *)

\* The most entries of a document's root table.
MaxTables == 3

XKey == Repr(NoDecor, <<"x">>)
SKey == Repr(NoDecor, <<"s">>)

\* A table with header decor d, the line x=1 and position pos.
Leaf(d, pos) ==
    Table(d, <<KV(XKey, ItemValue(Integer(NoDecor, <<"1">>)))>>, FALSE, pos)

\* The items an entry of the root table may hold: tables with the ordinals
\* 5, 2 and 8; an implicit table without ordinal that holds only the table s
\* (ordinal 3); an array of two tables (ordinals 1 and 6), the second with a
\* nested table without ordinal (inserted after parsing); an array value with
\* trailing_comma && newlines.
RootItems ==
    { ItemTable(Leaf(NoDecor, <<5>>)),
      ItemTable(Leaf(Decor(NL, <<>>), <<2>>)),
      ItemTable(Leaf(NoDecor, <<8>>)),
      ItemTable(Table(NoDecor, <<KV(SKey, ItemTable(Leaf(NoDecor, <<3>>)))>>, TRUE, <<>>)),
      ItemArrayOfTables(
          << Leaf(NoDecor, <<1>>),
             Table(NoDecor,
                   << KV(XKey, ItemValue(Integer(NoDecor, <<"1">>))),
                      KV(SKey, ItemTable(Leaf(NoDecor, <<>>))) >>,
                   FALSE, <<6>>) >>),
      ItemValue(Array(NoDecor,
                      << Integer(Decor(<<>>, NL), <<"1">>), Integer(Decor(<<>>, NL), <<"2">>) >>,
                      <<>>, TRUE, TRUE)) }

RootKeyNames == <<"b", "a", "c", "d", "e">>
RootKey(i) == Repr(NoDecor, <<RootKeyNames[i]>>)

Trailings == { <<>>, <<"#", "\n">> }

\* Documents whose root holds up to MaxTables entries, no two alike.
Documents ==
    UNION {
      { Document(Table(NoDecor, [i \in 1..n |-> KV(RootKey(i), its[i])], FALSE, <<>>), tr) :
          tr \in Trailings,
          its \in {s \in [1..n -> RootItems] : \A i, j \in 1..n : i # j => s[i] # s[j]} }
      : n \in 0..MaxTables }

\* The write attempts a sink may reject (0: none).
FailPoints == {0, 1, 4, 9}

InitDoc ==
    /\ doc \in Documents
    /\ value = Nil /\ table = Nil /\ is_array_of_tables = Nil /\ source = Nil
    /\ path = <<>> /\ f = NewSink(0) /\ string = <<>> /\ calls = <<>> /\ tables = <<>>
    /\ result = Nil
    /\ pc = "init"

\* write!(sink, "{}", doc) on a sink that rejects its k-th write_str
Fmt(k) ==
    /\ LET st == Document_fmt(NewSink(k), doc)
       IN /\ f' = st.f
          /\ result' = st.r
          /\ calls' = st.calls
          /\ path' = st.path
    /\ doc' = Document_after_fmt(doc)
    /\ string' = <<>>
    /\ tables' = <<>>
    /\ pc' = "Document::fmt"
    /\ UNCHANGED <<value, table, is_array_of_tables, source>>

\* doc.to_string_in_original_order()
ToStringInOriginalOrder ==
    /\ LET st == original_order_traversal(doc)
       IN /\ calls' = st.calls
          /\ path' = st.path
          /\ tables' = st.tables
          /\ result' = st.r
    /\ string' = to_string_in_original_order(doc)
    /\ doc' = Document_after_fmt(doc)
    /\ f' = NewSink(0)
    /\ pc' = "to_string_in_original_order"
    /\ UNCHANGED <<value, table, is_array_of_tables, source>>

NextDoc ==
    \/ \E k \in FailPoints : Fmt(k)
    \/ ToStringInOriginalOrder

SpecDoc == InitDoc /\ [][NextDoc]_vars

-----------------------------------------------------------------------------
(* Properties of the traversal and of the two document renders (under SpecDoc) *)

\* A table of the tree is addressed by the steps from the root: <<i, 0>> into
\* the table held by the i-th entry, <<i, j>> into the j-th table of the array
\* of tables held by the i-th entry.
RECURSIVE Addrs(_)
Addrs(t) ==
    LET Under(i) ==
            LET it == t.items[i].value
            IN CASE it.kind = "Table" -> {<< <<i, 0>> >> \o a : a \in Addrs(it.table)}
                 [] it.kind = "ArrayOfTables" ->
                      UNION { {<< <<i, j>> >> \o a : a \in Addrs(it.values[j])} :
                              j \in 1..Len(it.values) }
                 [] OTHER -> {}
    IN {<<>>} \cup UNION {Under(i) : i \in 1..Len(t.items)}

StepInto(t, step) ==
    IF step[2] = 0 THEN t.items[step[1]].value.table
    ELSE t.items[step[1]].value.values[step[2]]

RECURSIVE TableAt(_, _)
TableAt(t, a) == IF a = <<>> THEN t ELSE TableAt(StepInto(t, Head(a)), Tail(a))

RECURSIVE KeysAlong(_, _)
KeysAlong(t, a) ==
    IF a = <<>> THEN <<>>
    ELSE <<t.items[Head(a)[1]].key.raw_value>> \o KeysAlong(StepInto(t, Head(a)), Tail(a))

StepLess(x, y) == x[1] < y[1] \/ (x[1] = y[1] /\ x[2] < y[2])

\* Address a comes before address b in depth-first pre-order: a is a proper
\* prefix of b, or at the first step where they differ a takes the earlier
\* entry (or the earlier table of the same array of tables).
Before(a, b) ==
    \E m \in 0..Len(a) :
        /\ m < Len(b)
        /\ SubSeq(a, 1, m) = SubSeq(b, 1, m)
        /\ m = Len(a) \/ StepLess(a[m + 1], b[m + 1])

\* The depth-first pre-order listing of the tables reachable from t, as the
\* callback should see them.
ExpectedCalls(t) ==
    LET S == Addrs(t)
        at(k) == CHOOSE a \in S : Cardinality({b \in S : Before(b, a)}) = k - 1
    IN [k \in 1..Cardinality(S) |->
           [table |-> TableAt(t, at(k)),
            path |-> KeysAlong(t, at(k)),
            is_array_of_tables |-> at(k) # <<>> /\ at(k)[Len(at(k))][2] > 0]]

Traversed == pc \in {"Document::fmt", "to_string_in_original_order"}

\* C3: the callback invocations of a traversal from the root are the
\* depth-first pre-order listing of the tables reachable through Table and
\* ArrayOfTables entries, entries in item order, the tables of an array of
\* tables in sequence with flag true, each with the keys from the root as its
\* path; a successful traversal leaves the path stack empty.
C3_PreOrder ==
    Traversed =>
        LET expected == ExpectedCalls(doc.root)
        IN /\ Len(calls) <= Len(expected)
           /\ \A k \in 1..Len(calls) : calls[k] = expected[k]
           /\ result = "Ok" => (Len(calls) = Len(expected) /\ path = <<>>)

\* A traversal visited a table, then both tables of a following array of
\* tables and the table nested in the second, and ended with an empty stack.
C3_Witness ==
    /\ Traversed /\ result = "Ok" /\ path = <<>>
    /\ Len(calls) = 5
    /\ calls[2].path = << <<"b">> >> /\ ~calls[2].is_array_of_tables
    /\ calls[3].path = << <<"a">> >> /\ calls[3].is_array_of_tables
    /\ calls[4].path = << <<"a">> >> /\ calls[4].is_array_of_tables
    /\ calls[5].path = << <<"a">>, <<"s">> >> /\ ~calls[5].is_array_of_tables

Max(S) == CHOOSE x \in S : \A y \in S : y <= x

\* The running ordinal at the i-th callback: the position of the last table
\* among the first i visited that has one, 0 if none has.
TagAt(cs, i) ==
    LET S == {j \in 1..i : cs[j].table.position # <<>>}
    IN IF S = {} THEN 0 ELSE cs[Max(S)].table.position[1]

\* The header and body of the i-th visited table.
BufferAt(cs, i) ==
    visit_table(String_new, cs[i].table, cs[i].path, cs[i].is_array_of_tables).out

\* The buffers in non-decreasing tag order, equal tags in traversal order.
InTagOrder(cs) ==
    LET n == Len(cs)
        rank(i) == Cardinality({j \in 1..n : \/ TagAt(cs, j) < TagAt(cs, i)
                                             \/ TagAt(cs, j) = TagAt(cs, i) /\ j < i})
    IN [k \in 1..n |-> BufferAt(cs, CHOOSE i \in 1..n : rank(i) = k - 1)]

\* The document of tables b (ordinal 5), a (ordinal 2), c (ordinal 8), in
\* container order b, a, c.
ExampleDoc ==
    Document(Table(NoDecor,
                   << KV(RootKey(1), ItemTable(Leaf(NoDecor, <<5>>))),
                      KV(RootKey(2), ItemTable(Leaf(Decor(NL, <<>>), <<2>>))),
                      KV(RootKey(3), ItemTable(Leaf(NoDecor, <<8>>))) >>,
                   FALSE, <<>>),
             <<>>)

BlockA == <<"\n", "[", "a", "]", "\n", "x", "=", "1", "\n">>
BlockB == <<"[", "b", "]", "\n", "x", "=", "1", "\n">>
BlockC == <<"[", "c", "]", "\n", "x", "=", "1", "\n">>

\* C4: the original-order render tags the buffer of each visited table with
\* the running ordinal and gives the buffers in non-decreasing tag order,
\* equal tags in traversal order, then the trailing decor; tables b (5),
\* a (2), c (8) held in the order b, a, c come out as b, a, c in the
\* natural-order render and as a, b, c in the original-order render.
C4_OriginalOrder ==
    pc = "to_string_in_original_order" =>
        /\ tables = [i \in 1..Len(calls) |-> <<TagAt(calls, i), BufferAt(calls, i)>>]
        /\ string = Concat(InTagOrder(calls)) \o doc.trailing
        /\ doc = ExampleDoc =>
             /\ string = BlockA \o BlockB \o BlockC
             /\ Document_fmt(NewSink(0), doc).f.out = BlockB \o BlockA \o BlockC

\* The tables b (5), a (2), c (8) were rendered in original order.
C4_Witness ==
    /\ pc = "to_string_in_original_order"
    /\ doc = ExampleDoc
    /\ string = <<"\n", "[", "a", "]", "\n", "x", "=", "1", "\n",
                  "[", "b", "]", "\n", "x", "=", "1", "\n",
                  "[", "c", "]", "\n", "x", "=", "1", "\n">>

\* The write_str calls visit_table makes for the i-th visited table.
WritesAt(cs, i) ==
    visit_table(String_new, cs[i].table, cs[i].path, cs[i].is_array_of_tables).n

RECURSIVE WritesThrough(_, _)
\* The write_str calls made for the first m visited tables.
WritesThrough(cs, m) == IF m = 0 THEN 0 ELSE WritesThrough(cs, m - 1) + WritesAt(cs, m)

\* The number of callbacks made when the k-th write_str is made: up to the
\* table whose text holds it, or all of them for the trailing text.
CallbacksAtWrite(cs, k) ==
    LET S == {m \in 1..Len(cs) : WritesThrough(cs, m) >= k}
    IN IF S = {} THEN Len(cs) ELSE CHOOSE m \in S : \A m2 \in S : m <= m2

\* C8: when the sink rejects the k-th write of a natural-order render, no
\* later write is attempted, no later table's callback is invoked, the render
\* returns the error and the text accepted is a prefix of the full render's;
\* when no write fails the render returns success with the full text.
C8_SinkFailureAborts ==
    pc = "Document::fmt" =>
        LET full == Document_fmt(NewSink(0), doc)
            k == f.failAt
        IN IF k > 0 /\ k <= full.f.n
           THEN /\ result = "Err"
                /\ f.n = k
                /\ IsPrefix(f.out, full.f.out)
                /\ calls = SubSeq(full.calls, 1, CallbacksAtWrite(full.calls, k))
           ELSE /\ result = "Ok"
                /\ f.out = full.f.out
                /\ calls = full.calls

\* The sink rejected a write in the first of three tables: one table's
\* callback besides the root's was made.
C8_Witness ==
    /\ pc = "Document::fmt"
    /\ result = "Err" /\ f.failAt = 9 /\ f.n = 9
    /\ Len(doc.root.items) = 3
    /\ \A i \in 1..3 : doc.root.items[i].value.kind = "Table"
    /\ Len(calls) = 2
    /\ f.out = <<"[", "b", "]", "\n", "x">>

\* C9: no render alters the document, and two successive successful renders
\* in the same mode give the same text.
C9_TreeUnchanged ==
    [][ /\ doc' = doc
        /\ (pc' = pc /\ result = "Ok" /\ result' = "Ok") =>
             IF pc = "Document::fmt" THEN f'.out = f.out ELSE string' = string
      ]_vars

\* A document whose array has trailing_comma && newlines was rendered with
\* the comma spliced in, and the array's last element still has its suffix.
C9_Witness ==
    /\ pc = "Document::fmt" /\ result = "Ok"
    /\ Len(doc.root.items) = 1
    /\ doc.root.items[1].value.kind = "Value"
    /\ doc.root.items[1].value.value.values[2].repr.decor.suffix = NL
    /\ doc.trailing = <<>>
    /\ f.out = <<"b", "=", "[", "1", "\n", ",", "2", ",", "\n", "]", "\n">>

-----------------------------------------------------------------------------
(* Parsing: the document tree of a source text, as the parser's contract   *)
(* describes it.  A source is its root lines, its table blocks in order    *)
(* and its trailing text; a block is a header ([path] or [[path]]) and the *)
(* lines under it.                                                         *)

\* The most table blocks of a source text.
MaxBlocks == 3

BodyLine == <<"x", "=", "1", "\n">>
BodyItems == <<KV(XKey, ItemValue(Integer(NoDecor, <<"1">>)))>>

\* The text of one block.
BlockText(b) ==
    b.prefix \o (IF b.array THEN <<"[", "[">> ELSE <<"[">>) \o join(b.path, <<".">>)
      \o (IF b.array THEN <<"]", "]">> ELSE <<"]">>) \o NL \o BodyLine

\* The source text T.
SourceText(src) ==
    (IF src.body THEN BodyLine ELSE <<>>)
      \o Concat([k \in 1..Len(src.blocks) |-> BlockText(src.blocks[k])])
      \o src.trailing

\* The index of the entry of table t with key name (0: none).
IndexOf(t, name) ==
    IF \E i \in 1..Len(t.items) : t.items[i].key.raw_value = name
    THEN CHOOSE i \in 1..Len(t.items) : t.items[i].key.raw_value = name
    ELSE 0

\* The table a header creates: explicit, with the header's decor and its
\* position ordinal.
HeaderTable(b, pos) == Table(Decor(b.prefix, <<>>), BodyItems, FALSE, <<pos>>)

ImplicitTable == Table(NoDecor, <<>>, TRUE, <<>>)

Invalid(t) == [ok |-> FALSE, t |-> t]
Valid(t) == [ok |-> TRUE, t |-> t]

\* The table t with its i-th entry's item replaced, or with a new last entry.
WithItem(t, i, name, item) ==
    IF i = 0 THEN [t EXCEPT !.items = Append(@, KV(Repr(NoDecor, name), item))]
    ELSE [t EXCEPT !.items = [k \in 1..Len(@) |-> IF k = i THEN KV(@[k].key, item) ELSE @[k]]]

\* The header of block b, at the last key of its path, in table t.
on_header(t, name, b, pos) ==
    LET i == IndexOf(t, name)
        item == t.items[i].value
    IN IF b.array
       THEN IF i = 0
            THEN Valid(WithItem(t, 0, name, ItemArrayOfTables(<<HeaderTable(b, pos)>>)))
            ELSE IF item.kind = "ArrayOfTables"
                 THEN Valid(WithItem(t, i, name,
                                     ItemArrayOfTables(Append(item.values, HeaderTable(b, pos)))))
                 ELSE Invalid(t)
       ELSE IF i = 0
            THEN Valid(WithItem(t, 0, name, ItemTable(HeaderTable(b, pos))))
            ELSE IF item.kind = "Table" /\ item.table.implicit
                 THEN Valid(WithItem(t, i, name,
                                     ItemTable([HeaderTable(b, pos) EXCEPT
                                                  !.items = item.table.items \o @])))
                 ELSE Invalid(t)

RECURSIVE descend_path(_, _, _, _)
\* The block b with header path p (what is left of it) entered under table
\* t: tables on the way that do not exist yet are created implicit, an array
\* of tables on the way is entered at its last table.
descend_path(t, p, b, pos) ==
    IF Len(p) = 1 THEN on_header(t, p[1], b, pos)
    ELSE LET i == IndexOf(t, p[1])
             item == t.items[i].value
         IN IF i = 0
            THEN LET sub == descend_path(ImplicitTable, Tail(p), b, pos)
                 IN [ok |-> sub.ok, t |-> WithItem(t, 0, p[1], ItemTable(sub.t))]
            ELSE IF item.kind = "Table"
            THEN LET sub == descend_path(item.table, Tail(p), b, pos)
                 IN [ok |-> sub.ok, t |-> WithItem(t, i, p[1], ItemTable(sub.t))]
            ELSE IF item.kind = "ArrayOfTables"
            THEN LET n == Len(item.values)
                     sub == descend_path(item.values[n], Tail(p), b, pos)
                 IN [ok |-> sub.ok,
                     t |-> WithItem(t, i, p[1],
                                    ItemArrayOfTables(
                                        SubSeq(item.values, 1, n - 1) \o <<sub.t>>))]
            ELSE Invalid(t)

RECURSIVE parse_blocks(_, _, _)
\* The root table after the blocks from the k-th on; ordinals count from 0.
parse_blocks(root, blocks, k) ==
    IF ~root.ok \/ k > Len(blocks) THEN root
    ELSE parse_blocks(descend_path(root.t, blocks[k].path, blocks[k], k - 1), blocks, k + 1)

\* The document of a source text (ok: the text is valid).
Parse(src) ==
    LET root == parse_blocks(
                    Valid(Table(NoDecor, IF src.body THEN BodyItems ELSE <<>>, FALSE, <<>>)),
                    src.blocks, 1)
    IN [ok |-> root.ok, doc |-> Document(root.t, src.trailing)]

\* Header paths and kinds of the blocks of a source.
Headers ==
    { [array |-> FALSE, path |-> << <<"a">> >>],
      [array |-> FALSE, path |-> << <<"b">> >>],
      [array |-> FALSE, path |-> << <<"a">>, <<"b">> >>],
      [array |-> FALSE, path |-> << <<"a">>, <<"c">> >>],
      [array |-> TRUE, path |-> << <<"a">> >>],
      [array |-> TRUE, path |-> << <<"b">> >>],
      [array |-> TRUE, path |-> << <<"a">>, <<"b">> >>] }

\* The block with header h at place k: blocks after the first follow a blank line.
Block(h, k) ==
    [array |-> h.array, path |-> h.path, prefix |-> IF k = 1 THEN <<>> ELSE NL]

Sources ==
    UNION {
      { [body |-> body, blocks |-> [k \in 1..n |-> Block(hs[k], k)], trailing |-> tr] :
          body \in BOOLEAN, tr \in {<<"#", "\n">>}, hs \in [1..n -> Headers] }
      : n \in 0..MaxBlocks }

InitParse ==
    /\ source \in {src \in Sources : Parse(src).ok}
    /\ doc = Document(EmptyTable, <<>>)
    /\ value = Nil /\ table = Nil /\ is_array_of_tables = Nil
    /\ path = <<>> /\ f = NewSink(0) /\ string = <<>> /\ calls = <<>> /\ tables = <<>>
    /\ result = Nil
    /\ pc = "init"

\* source.parse::<Document>()
ParseSource ==
    /\ pc = "init"
    /\ doc' = Parse(source).doc
    /\ pc' = "parse"
    /\ UNCHANGED <<value, table, path, is_array_of_tables, source, f, string, calls,
                   tables, result>>

\* write!(sink, "{}", doc) of the parsed document
FmtParsed == pc # "init" /\ Fmt(0)

\* doc.to_string_in_original_order() of the parsed document
ToStringInOriginalOrderParsed == pc # "init" /\ ToStringInOriginalOrder

NextParse ==
    \/ ParseSource
    \/ FmtParsed
    \/ ToStringInOriginalOrderParsed

SpecParse == InitParse /\ [][NextParse]_vars

InContainerOrder(t) ==
    LET cs == ExpectedCalls(t)
    IN \A i, j \in 1..Len(cs) : i < j => TagAt(cs, i) <= TagAt(cs, j)

=============================================================================
